---- MODULE Spec2Model ----
(***************************************************************************)
(* Register abstraction layer of the MAX1704x fuel-gauge driver            *)
(* (class SFE_MAX1704X).  The peripheral's 16-bit registers are the only   *)
(* state; every driver call is translated to 16-bit register transactions  *)
(* (read16 / write16) on a transport that may fail.                        *)
(*                                                                         *)
(* Register addresses, bit positions, command words and the signatures of  *)
(* the calls come from SparkFun_MAX1704x_Fuel_Gauge_Arduino_Library.h.     *)
(* The bodies of the member functions are not part of the header; they are *)
(* modelled from the design description (section 4 of spec.md).            *)
(***************************************************************************)
EXTENDS Integers, Sequences, FiniteSets, TLC

VARIABLES
    regs,        \* the peripheral's register file: address -> 16-bit word
    full_scale,  \* _full_scale: 5 (MAX17043) or 10 (MAX17044), fixed at construction
    last,        \* the call that has just returned: [op, arg, ret, log, pre]
    ncalls,      \* how many calls the application has made
    cpc,         \* two-context model: position of each context in its read-modify-write
    ctmp,        \* two-context model: the word each context has read
    cst,         \* two-context model: transport status of each context's transactions
    carg,        \* two-context model: the percent context 2 passes to setThreshold
    corder       \* two-context model: the order in which bus transactions were issued

vars == <<regs, full_scale, last, ncalls, cpc, ctmp, cst, carg, corder>>

---------------------------------------------------------------------------
\* Bounds of the model.

\* The application makes at most MaxCalls calls in a run.  The driver keeps no
\* state between calls, so a call depends only on the registers it finds.
MaxCalls == 1

\* Transport status codes drawn for every transaction: success, address NACK
\* and the MaxExtraStatus codes after it (3 data NACK, 4 other).
MaxExtraStatus == 0

\* Arguments are drawn from both ends of their documented domain, this far
\* inwards from each end.
MaxEdge == 0

---------------------------------------------------------------------------
\* Register map and constants of the header.

MAX17043_VCELL == 2
MAX17043_SOC == 4
MAX17043_MODE == 6
MAX17043_VERSION == 8
\* Fault: CONFIG confused with VRESET_ID (0x18).
MAX17043_CONFIG_as_VRESET_ID == 12 + 12
MAX17043_CONFIG == 12
MAX17048_CRATE == 22
MAX17048_VRESET_ID == 24
MAX17048_STATUS == 26
MAX17043_COMMAND == 254

\* Fault: the SLEEP bit placed inside the threshold field.
MAX17043_CONFIG_SLEEP_bit4 == 7 - 3
MAX17043_CONFIG_SLEEP == 7
\* Fault: the ALRT bit off by one position.
MAX17043_CONFIG_ALERT_bit6 == 5 + 1
MAX17043_CONFIG_ALERT == 5
\* Fault: the threshold field shifted by one bit.
MAX17043_CONFIG_THRESHOLD_bit1 == 0 + 1
MAX17043_CONFIG_THRESHOLD == 0

MAX17043_MODE_QUICKSTART == 16384

MAX1704x_STATUS_RI == 1
MAX1704x_STATUS_VH == 2
MAX1704x_STATUS_VL == 4
MAX1704x_STATUS_VR == 8
MAX1704x_STATUS_HD == 16
MAX1704x_STATUS_SC == 32

\* Fault: the bytes of the power-on-reset word swapped (0x0054).
MAX17043_COMMAND_POR_swapped == 21504 \div 256
MAX17043_COMMAND_POR == 21504

MAX17043_GENERIC_ERROR == 5

\* Fault: the upper limit of the accepted percent off by one.
ThresholdMax_33 == 32 + 1

\* "Any value between 1 and 32 is valid" (setThreshold).
ThresholdMin == 1
ThresholdMax == 32

\* Wire.endTransmission: 0 success, 2 received NACK on transmit of address.
WIRE_SUCCESS == 0
WIRE_ADDR_NACK == 2

---------------------------------------------------------------------------
\* Bit and byte arithmetic on 16-bit words.

Word == 0..65535

Bit(x, n) == (x \div (2^n)) % 2
SetBit(x, n) == IF Bit(x, n) = 1 THEN x ELSE x + 2^n
ClearBit(x, n) == IF Bit(x, n) = 1 THEN x - 2^n ELSE x
HighByte(x) == x \div 256
LowByte(x) == x % 256

\* The 5-bit ATHD field of a CONFIG word, and the word with that field replaced.
ThresholdField(w) == (w \div (2^MAX17043_CONFIG_THRESHOLD)) % 32
WithThresholdField(w, f) ==
    w - ThresholdField(w) * (2^MAX17043_CONFIG_THRESHOLD)
      + f * (2^MAX17043_CONFIG_THRESHOLD)

\* The modify step of setThreshold: ATHD is stored as 32 - percent.
ThresholdWord(w, percent) == WithThresholdField(w, 32 - percent)

\* The modify step of sleep(): the SLEEP bit set.
SleepWord(w) == SetBit(w, MAX17043_CONFIG_SLEEP)

\* The 7-bit VRESET field (bits 15-9) of a VRESET_ID word.
VresetField(w) == w \div 512

---------------------------------------------------------------------------
\* The peripheral.

\* The peripheral decodes addresses by the datasheet's register map, whatever
\* names the driver gives them: VCELL 0x02, SOC 0x04, VERSION 0x08, CONFIG 0x0C,
\* CRATE 0x16, VRESET_ID 0x18, STATUS 0x1A, COMMAND 0xFE.
\* Power-up defaults: CONFIG 0x971C, VRESET_ID 0x96__, STATUS 0x01__.
PowerOnDefaults(r) ==
    [r EXCEPT ![12] = 38684,
              ![24] = 38400 + LowByte(r[24]),
              ![26] = 256 + LowByte(r[26])]

DevRead(r, addr) == IF addr \in DOMAIN r THEN r[addr] ELSE 0

\* A write the peripheral has acknowledged.  COMMAND and MODE are command
\* registers; the ID byte of VRESET_ID ignores writes; the others store the word.
DevWrite(r, addr, data) ==
    IF addr = 254 /\ data = 21504
    THEN PowerOnDefaults(r)
    ELSE IF addr = 12 \/ addr = 26
    THEN [r EXCEPT ![addr] = data]
    ELSE IF addr = 24
    THEN [r EXCEPT ![addr] = HighByte(data) * 256 + LowByte(r[addr])]
    ELSE r

---------------------------------------------------------------------------
\* RegisterIO: one 16-bit transaction per call.

Txn(kind, addr, data, status) ==
    [kind |-> kind, addr |-> addr, data |-> data, status |-> status]

\* Fault: the two bytes of the word sent as two separate transactions.
write16_bytewise(r, data, address, st) ==
    [regs |-> IF st = 0 THEN DevWrite(r, address, data) ELSE r,
     ret  |-> st,
     log  |-> <<Txn("w", address, HighByte(data), st),
                Txn("w", address + 1, LowByte(data), st)>>]

\* uint8_t write16(uint16_t data, uint8_t address): 0 on success, positive
\* integer (the transport's status) on fail.
write16(r, data, address, st) ==
    [regs |-> IF st = WIRE_SUCCESS THEN DevWrite(r, address, data) ELSE r,
     ret  |-> st,
     log  |-> <<Txn("w", address, data, st)>>]

\* uint16_t read16(uint8_t address): a 16-bit value and nothing else comes
\* back; when the transport fails the value is whatever the word g is.  The
\* log keeps the word handed to the caller.
read16(r, address, st, g) ==
    LET value == IF st = WIRE_SUCCESS THEN DevRead(r, address) ELSE g
    IN  [regs |-> r, ret |-> value, log |-> <<Txn("r", address, value, st)>>]

Status == {WIRE_SUCCESS} \cup (WIRE_ADDR_NACK .. (WIRE_ADDR_NACK + MaxExtraStatus))

\* What a failed read16 may hand back: any 16-bit word; the all-zeros and
\* the all-ones word are drawn.
Garbage == {0, 65535}
GarbageFor(st) == IF st = WIRE_SUCCESS THEN {0} ELSE Garbage

---------------------------------------------------------------------------
\* DeviceController: every call returns [regs, ret, log], the register file
\* it leaves, the value it returns and the transactions it issued.  s1, s2,
\* s3 are the transport's status for the call's transactions in order, g1,
\* g2 the words a failed read hands back.

Result(r, ret, log) == [regs |-> r, ret |-> ret, log |-> log]

quickStart(r, s1) == write16(r, MAX17043_MODE_QUICKSTART, MAX17043_MODE, s1)

\* Microvolts: the upper 12 bits of VCELL times 1.25 mV, doubled at 10 V full scale.
getVoltage(r, fs, s1, g1) ==
    LET rd == read16(r, MAX17043_VCELL, s1, g1)
    IN  Result(r, (rd.ret \div 16) * 1250 * (fs \div 5), rd.log)

\* In 1/256 percent: percent in the high byte, fraction in the low byte.
getSOC(r, s1, g1) == read16(r, MAX17043_SOC, s1, g1)

getVersion(r, s1, g1) == read16(r, MAX17043_VERSION, s1, g1)

getThreshold(r, s1, g1) ==
    LET rd == read16(r, MAX17043_CONFIG, s1, g1)
    IN  Result(r, 32 - ThresholdField(rd.ret), rd.log)

setThreshold(r, percent, s1, g1, s2) ==
    IF percent < ThresholdMin \/ percent > ThresholdMax
    THEN Result(r, MAX17043_GENERIC_ERROR, <<>>)
    ELSE LET rd == read16(r, MAX17043_CONFIG, s1, g1)
             wr == write16(r, ThresholdWord(rd.ret, percent), MAX17043_CONFIG, s2)
         IN  Result(wr.regs, wr.ret, rd.log \o wr.log)

clearAlert(r, s1, g1, s2) ==
    LET rd == read16(r, MAX17043_CONFIG, s1, g1)
        wr == write16(r, ClearBit(rd.ret, MAX17043_CONFIG_ALERT), MAX17043_CONFIG, s2)
    IN  Result(wr.regs, wr.ret, rd.log \o wr.log)

\* Returns the ALRT bit as read; when asked to clear and the bit is set, a
\* follow-up read-modify-write (clearAlert) clears it.
getAlert(r, clear, s1, g1, s2, g2, s3) ==
    LET rd == read16(r, MAX17043_CONFIG, s1, g1)
        alrt == Bit(rd.ret, MAX17043_CONFIG_ALERT)
        cl == clearAlert(r, s2, g2, s3)
    IN  IF clear /\ alrt = 1
        THEN Result(cl.regs, alrt, rd.log \o cl.log)
        ELSE Result(r, alrt, rd.log)

sleep(r, s1, g1, s2) ==
    LET rd == read16(r, MAX17043_CONFIG, s1, g1)
        wr == write16(r, SleepWord(rd.ret), MAX17043_CONFIG, s2)
    IN  Result(wr.regs, wr.ret, rd.log \o wr.log)

wake(r, s1, g1, s2) ==
    LET rd == read16(r, MAX17043_CONFIG, s1, g1)
        wr == write16(r, ClearBit(rd.ret, MAX17043_CONFIG_SLEEP), MAX17043_CONFIG, s2)
    IN  Result(wr.regs, wr.ret, rd.log \o wr.log)

reset(r, s1) == write16(r, MAX17043_COMMAND_POR, MAX17043_COMMAND, s1)

\* void: the same write as reset(), nothing returned.
softReset(r, s1) ==
    LET wr == write16(r, MAX17043_COMMAND_POR, MAX17043_COMMAND, s1)
    IN  Result(wr.regs, 0, wr.log)

getConfigRegister(r, s1, g1) == read16(r, MAX17043_CONFIG, s1, g1)

getCompensation(r, s1, g1) ==
    LET rd == read16(r, MAX17043_CONFIG, s1, g1)
    IN  Result(r, HighByte(rd.ret), rd.log)

setCompensation(r, newCompensation, s1, g1, s2) ==
    LET rd == read16(r, MAX17043_CONFIG, s1, g1)
        wr == write16(r, newCompensation * 256 + LowByte(rd.ret), MAX17043_CONFIG, s2)
    IN  Result(wr.regs, wr.ret, rd.log \o wr.log)

getID(r, s1, g1) ==
    LET rd == read16(r, MAX17048_VRESET_ID, s1, g1)
    IN  Result(r, LowByte(rd.ret), rd.log)

\* Bits 15-9 take the threshold; bit 8 (comparator enable) and the ID byte are kept.
setResetVoltage(r, threshold, s1, g1, s2) ==
    LET rd == read16(r, MAX17048_VRESET_ID, s1, g1)
        wr == write16(r, ((threshold * 512) % 65536) + (rd.ret % 512),
                      MAX17048_VRESET_ID, s2)
    IN  Result(wr.regs, wr.ret, rd.log \o wr.log)

getResetVoltage(r, s1, g1) ==
    LET rd == read16(r, MAX17048_VRESET_ID, s1, g1)
    IN  Result(r, VresetField(rd.ret), rd.log)

\* "Set bit in VRESET/ID reg": bit 0 of the high byte.
enableComparator(r, s1, g1, s2) ==
    LET rd == read16(r, MAX17048_VRESET_ID, s1, g1)
        wr == write16(r, SetBit(rd.ret, 8), MAX17048_VRESET_ID, s2)
    IN  Result(wr.regs, wr.ret, rd.log \o wr.log)

\* "Clear bit in VRESET/ID reg".
disableComparator(r, s1, g1, s2) ==
    LET rd == read16(r, MAX17048_VRESET_ID, s1, g1)
        wr == write16(r, ClearBit(rd.ret, 8), MAX17048_VRESET_ID, s2)
    IN  Result(wr.regs, wr.ret, rd.log \o wr.log)

\* In 0.001 percent per hour: CRATE as a signed 16-bit quantity times 0.208.
getChangeRate(r, s1, g1) ==
    LET rd == read16(r, MAX17048_CRATE, s1, g1)
        signed == IF rd.ret >= 32768 THEN rd.ret - 65536 ELSE rd.ret
    IN  Result(r, signed * 208, rd.log)

\* The 7 bits of the status register: the upper byte of STATUS.
getStatus(r, s1, g1) ==
    LET rd == read16(r, MAX17048_STATUS, s1, g1)
    IN  Result(r, HighByte(rd.ret) % 128, rd.log)

\* isReset, isVoltageHigh, isVoltageLow, isVoltageReset, isLow, isChange:
\* getStatus() masked with one MAX1704x_STATUS_* bit.
StatusHelpers ==
    {<<"isReset", MAX1704x_STATUS_RI>>, <<"isVoltageHigh", MAX1704x_STATUS_VH>>,
     <<"isVoltageLow", MAX1704x_STATUS_VL>>, <<"isVoltageReset", MAX1704x_STATUS_VR>>,
     <<"isLow", MAX1704x_STATUS_HD>>, <<"isChange", MAX1704x_STATUS_SC>>}

isStatusBit(r, mask, s1, g1) ==
    LET st == getStatus(r, s1, g1)
    IN  Result(r, IF (st.ret \div mask) % 2 = 1 THEN 1 ELSE 0, st.log)

\* The voltage-reset alert enable: bit 6 of the status byte (bit 14 of STATUS).
enableAlert(r, s1, g1, s2) ==
    LET rd == read16(r, MAX17048_STATUS, s1, g1)
        wr == write16(r, SetBit(rd.ret, 14), MAX17048_STATUS, s2)
    IN  Result(wr.regs, wr.ret, rd.log \o wr.log)

disableAlert(r, s1, g1, s2) ==
    LET rd == read16(r, MAX17048_STATUS, s1, g1)
        wr == write16(r, ClearBit(rd.ret, 14), MAX17048_STATUS, s2)
    IN  Result(wr.regs, wr.ret, rd.log \o wr.log)

\* Address probe only: no register transaction.  1 when the device acknowledges.
isConnected(r, s1) == Result(r, IF s1 = WIRE_SUCCESS THEN 1 ELSE 0, <<>>)

---------------------------------------------------------------------------
\* The single-context program: one action per public call.

\* Arguments drawn for the calls.
PercentArgs ==
    {0, 255} \cup {p \in 1..33 : p <= 1 + MaxEdge \/ p >= 32 - MaxEdge}
CompensationArgs == {v \in 0..255 : v <= MaxEdge \/ v >= 255 - MaxEdge}
ResetVoltageArgs == {v \in 0..127 : v <= MaxEdge \/ v >= 127 - MaxEdge}

NoCall == [op |-> "construct", arg |-> 0, ret |-> 0, log |-> <<>>, pre |-> <<>>]

ConcIdle ==
    /\ cpc = [c \in {1, 2} |-> "idle"]
    /\ ctmp = [c \in {1, 2} |-> 0]
    /\ cst = [c \in {1, 2} |-> <<>>]
    /\ carg = 0
    /\ corder = <<>>

\* Register contents the driver may find when it is constructed: the
\* peripheral runs on its own and keeps what earlier sessions configured.
\* CONFIG: 0x971C power-up default, 0x973C alert latched, 0x979C asleep,
\* 0x00FF and 0xFFE0 the extremes of the compensation and threshold fields.
ConfigWords == {38684, 38716, 38812, 255, 65504}
\* VRESET_ID: 0x960C default, 0x010C VRESET 0 with bit 8 set, 0xFE0C VRESET 127.
VresetWords == {38412, 268, 65036}
\* STATUS: 0x0100 reset indicator only, 0x7F00 every flag and the alert enable.
StatusWords == {256, 32512}

\* VCELL, SOC, VERSION and CRATE hold a reading.
DeviceRegs(config, vreset, status) ==
    (2 :> 49200) @@ (4 :> 23168) @@ (8 :> 3) @@ (12 :> config) @@
    (22 :> 65534) @@ (24 :> vreset) @@ (26 :> status)

\* One register at a time away from its power-up default.
DeviceStates ==
    {DeviceRegs(c, 38412, 256) : c \in ConfigWords}
        \cup {DeviceRegs(38684, v, 256) : v \in VresetWords}
        \cup {DeviceRegs(38684, 38412, s) : s \in StatusWords}

Init ==
    /\ regs \in DeviceStates
    /\ full_scale \in {5, 10}
    /\ last = NoCall
    /\ ncalls = 0
    /\ ConcIdle

Call(name, arg, res) ==
    /\ ncalls < MaxCalls
    /\ ncalls' = ncalls + 1
    /\ regs' = res.regs
    /\ last' = [op |-> name, arg |-> arg, ret |-> res.ret, log |-> res.log,
                pre |-> regs]
    /\ UNCHANGED <<full_scale, cpc, ctmp, cst, carg, corder>>

\* The fuel gauge latches ALRT (CONFIG bit 5) when SOC crosses the threshold.
DeviceAlert ==
    /\ Bit(regs[12], 5) = 0
    /\ regs' = [regs EXCEPT ![12] = SetBit(regs[12], 5)]
    /\ last' = [op |-> "deviceAlert", arg |-> 0, ret |-> 0, log |-> <<>>,
                pre |-> regs]
    /\ UNCHANGED <<full_scale, ncalls, cpc, ctmp, cst, carg, corder>>

isConnectedCall ==
    \E s1 \in Status : Call("isConnected", 0, isConnected(regs, s1))

quickStartCall ==
    \E s1 \in Status : Call("quickStart", 0, quickStart(regs, s1))

getVoltageCall ==
    \E s1 \in Status : \E g1 \in GarbageFor(s1) :
        Call("getVoltage", 0, getVoltage(regs, full_scale, s1, g1))

getSOCCall ==
    \E s1 \in Status : \E g1 \in GarbageFor(s1) :
        Call("getSOC", 0, getSOC(regs, s1, g1))

getVersionCall ==
    \E s1 \in Status : \E g1 \in GarbageFor(s1) :
        Call("getVersion", 0, getVersion(regs, s1, g1))

getThresholdCall ==
    \E s1 \in Status : \E g1 \in GarbageFor(s1) :
        Call("getThreshold", 0, getThreshold(regs, s1, g1))

setThresholdCall ==
    \E percent \in PercentArgs : \E s1, s2 \in Status : \E g1 \in GarbageFor(s1) :
        Call("setThreshold", percent, setThreshold(regs, percent, s1, g1, s2))

getAlertCall ==
    \E clear \in BOOLEAN : \E s1, s2, s3 \in Status :
        \E g1 \in GarbageFor(s1) : \E g2 \in GarbageFor(s2) :
            Call("getAlert", IF clear THEN 1 ELSE 0,
                 getAlert(regs, clear, s1, g1, s2, g2, s3))

clearAlertCall ==
    \E s1, s2 \in Status : \E g1 \in GarbageFor(s1) :
        Call("clearAlert", 0, clearAlert(regs, s1, g1, s2))

sleepCall ==
    \E s1, s2 \in Status : \E g1 \in GarbageFor(s1) :
        Call("sleep", 0, sleep(regs, s1, g1, s2))

wakeCall ==
    \E s1, s2 \in Status : \E g1 \in GarbageFor(s1) :
        Call("wake", 0, wake(regs, s1, g1, s2))

resetCall ==
    \E s1 \in Status : Call("reset", 0, reset(regs, s1))

softResetCall ==
    \E s1 \in Status : Call("softReset", 0, softReset(regs, s1))

getConfigRegisterCall ==
    \E s1 \in Status : \E g1 \in GarbageFor(s1) :
        Call("getConfigRegister", 0, getConfigRegister(regs, s1, g1))

getCompensationCall ==
    \E s1 \in Status : \E g1 \in GarbageFor(s1) :
        Call("getCompensation", 0, getCompensation(regs, s1, g1))

setCompensationCall ==
    \E v \in CompensationArgs : \E s1, s2 \in Status : \E g1 \in GarbageFor(s1) :
        Call("setCompensation", v, setCompensation(regs, v, s1, g1, s2))

getIDCall ==
    \E s1 \in Status : \E g1 \in GarbageFor(s1) :
        Call("getID", 0, getID(regs, s1, g1))

setResetVoltageCall ==
    \E v \in ResetVoltageArgs : \E s1, s2 \in Status : \E g1 \in GarbageFor(s1) :
        Call("setResetVoltage", v, setResetVoltage(regs, v, s1, g1, s2))

getResetVoltageCall ==
    \E s1 \in Status : \E g1 \in GarbageFor(s1) :
        Call("getResetVoltage", 0, getResetVoltage(regs, s1, g1))

enableComparatorCall ==
    \E s1, s2 \in Status : \E g1 \in GarbageFor(s1) :
        Call("enableComparator", 0, enableComparator(regs, s1, g1, s2))

disableComparatorCall ==
    \E s1, s2 \in Status : \E g1 \in GarbageFor(s1) :
        Call("disableComparator", 0, disableComparator(regs, s1, g1, s2))

getChangeRateCall ==
    \E s1 \in Status : \E g1 \in GarbageFor(s1) :
        Call("getChangeRate", 0, getChangeRate(regs, s1, g1))

getStatusCall ==
    \E s1 \in Status : \E g1 \in GarbageFor(s1) :
        Call("getStatus", 0, getStatus(regs, s1, g1))

isStatusBitCall ==
    \E h \in StatusHelpers : \E s1 \in Status : \E g1 \in GarbageFor(s1) :
        Call(h[1], 0, isStatusBit(regs, h[2], s1, g1))

enableAlertCall ==
    \E s1, s2 \in Status : \E g1 \in GarbageFor(s1) :
        Call("enableAlert", 0, enableAlert(regs, s1, g1, s2))

disableAlertCall ==
    \E s1, s2 \in Status : \E g1 \in GarbageFor(s1) :
        Call("disableAlert", 0, disableAlert(regs, s1, g1, s2))

\* The low-level calls are public too: the caller picks the word and the address.
write16Call ==
    \E a \in {<<38684, MAX17043_CONFIG>>, <<MAX17043_COMMAND_POR, MAX17043_COMMAND>>} :
        \E s1 \in Status : Call("write16", a[1], write16(regs, a[1], a[2], s1))

read16Call ==
    \E address \in {MAX17043_CONFIG, MAX17043_SOC} :
        \E s1 \in Status : \E g1 \in GarbageFor(s1) :
            Call("read16", address, read16(regs, address, s1, g1))

Next ==
    \/ DeviceAlert
    \/ isConnectedCall
    \/ quickStartCall
    \/ getVoltageCall
    \/ getSOCCall
    \/ getVersionCall
    \/ getThresholdCall
    \/ setThresholdCall
    \/ getAlertCall
    \/ clearAlertCall
    \/ sleepCall
    \/ wakeCall
    \/ resetCall
    \/ softResetCall
    \/ getConfigRegisterCall
    \/ getCompensationCall
    \/ setCompensationCall
    \/ getIDCall
    \/ setResetVoltageCall
    \/ getResetVoltageCall
    \/ enableComparatorCall
    \/ disableComparatorCall
    \/ getChangeRateCall
    \/ getStatusCall
    \/ isStatusBitCall
    \/ enableAlertCall
    \/ disableAlertCall
    \/ write16Call
    \/ read16Call

Spec == Init /\ [][Next]_vars

---------------------------------------------------------------------------
\* Two execution contexts sharing the bus without serialization: context 1
\* runs sleep(), context 2 runs setThreshold(carg).  Each read-modify-write
\* is two bus transactions, and the contexts may be switched between them.

InitConc ==
    /\ regs \in {DeviceRegs(c, 38412, 256) : c \in ConfigWords}
    /\ full_scale = 5
    /\ last = NoCall
    /\ ncalls = 0
    /\ cpc = [c \in {1, 2} |-> "start"]
    /\ ctmp = [c \in {1, 2} |-> 0]
    /\ cst = [c \in {1, 2} |-> <<>>]
    /\ carg \in {p \in PercentArgs : p >= ThresholdMin /\ p <= ThresholdMax}
    /\ corder = <<>>

ConcRead(c) ==
    /\ cpc[c] = "start"
    /\ \E s1 \in Status : \E g1 \in GarbageFor(s1) :
           /\ ctmp' = [ctmp EXCEPT ![c] = read16(regs, MAX17043_CONFIG, s1, g1).ret]
           /\ cst' = [cst EXCEPT ![c] = <<s1>>]
    /\ cpc' = [cpc EXCEPT ![c] = "read"]
    /\ corder' = Append(corder, c)
    /\ UNCHANGED <<regs, full_scale, last, ncalls, carg>>

ConcWrite(c, word) ==
    /\ cpc[c] = "read"
    /\ \E s2 \in Status :
           /\ regs' = write16(regs, word, MAX17043_CONFIG, s2).regs
           /\ cst' = [cst EXCEPT ![c] = Append(cst[c], s2)]
    /\ cpc' = [cpc EXCEPT ![c] = "done"]
    /\ corder' = Append(corder, c)
    /\ UNCHANGED <<full_scale, last, ncalls, ctmp, carg>>

sleepRead == ConcRead(1)
sleepWrite == ConcWrite(1, SleepWord(ctmp[1]))
setThresholdRead == ConcRead(2)
setThresholdWrite == ConcWrite(2, ThresholdWord(ctmp[2], carg))

NextConc ==
    \/ sleepRead
    \/ sleepWrite
    \/ setThresholdRead
    \/ setThresholdWrite

SpecConc == InitConc /\ [][NextConc]_vars

---------------------------------------------------------------------------
\* Properties.

\* The registers are ones a call can still find (the run has calls left).
CallPending == ncalls < MaxCalls

AllAcked(log) == \A i \in 1..Len(log) : log[i].status = 0
AllAddrNacked(log) == \A i \in 1..Len(log) : log[i].status = 2
NoWrite(log) == \A i \in 1..Len(log) : log[i].kind # "w"

Mutators ==
    {"quickStart", "setThreshold", "clearAlert", "sleep", "wake", "reset",
     "setCompensation", "setResetVoltage", "enableComparator",
     "disableComparator", "enableAlert", "disableAlert", "write16"}

Accessors ==
    {"getVoltage", "getSOC", "getVersion", "getThreshold", "getConfigRegister",
     "getCompensation", "getID", "getResetVoltage", "getChangeRate",
     "getStatus", "read16"}

\* Whether a call to op that read its register successfully can return v.
SuccessfulReading(op, v) ==
    CASE op \in {"read16", "getSOC", "getVersion", "getConfigRegister"} ->
             v \in 0..65535
      [] op = "getVoltage" ->
             v >= 0 /\ v % 1250 = 0 /\ v \div 1250 <= 2 * 4095
      [] op = "getThreshold" -> v \in 1..32
      [] op \in {"getCompensation", "getID"} -> v \in 0..255
      [] op \in {"getResetVoltage", "getStatus"} -> v \in 0..127
      [] op = "getChangeRate" ->
             v % 208 = 0 /\ v \div 208 >= -32768 /\ v \div 208 <= 32767
      [] OTHER -> FALSE

\* C1: for every percent outside 1..32, setThreshold(percent) returns a
\* nonzero code and issues no bus transaction, so no register changes --
\* for the call just made and, on every register file a call can find, for
\* every such percent and every answer of the transport.
C1_InvalidPercentRejected ==
    /\ (last.op = "setThreshold" /\ last.arg \notin 1..32) =>
           (last.ret # 0 /\ last.log = <<>> /\ regs = last.pre)
    /\ CallPending =>
           \A percent \in (0..255) \ (1..32) : \A s1, s2 \in Status : \A g1 \in Garbage :
               LET res == setThreshold(regs, percent, s1, g1, s2)
               IN  res.ret # 0 /\ res.log = <<>> /\ res.regs = regs

C1_Witness ==
    /\ last.op = "setThreshold"
    /\ last.arg = 33
    /\ last.ret # 0
    /\ last.log = <<>>
    /\ regs = last.pre

\* C2 as stated: when every transaction of a call is answered with address
\* NACK, a mutator returns nonzero and a value-returning accessor returns
\* something that no successful reading could be.
C2_FailureDistinguishable ==
    (last.log # <<>> /\ AllAddrNacked(last.log)) =>
        /\ (last.op \in Mutators => last.ret # 0)
        /\ (last.op \in Accessors => ~SuccessfulReading(last.op, last.ret))

\* C3 as stated: a mutator that went to the bus returns 0 if and only if all
\* of its transactions succeeded.
C3_ZeroIffAllSucceeded ==
    (last.op \in Mutators /\ last.log # <<>>) =>
        (last.ret = 0 <=> AllAcked(last.log))

\* C4: with the bus not failing, getAlert(clear=true) on a device with ALRT
\* set returns true and leaves ALRT clear, so that a getAlert(clear=false)
\* made next returns false; with ALRT not set it returns false and writes
\* nothing.
C4_GetAlertClears ==
    (last.op = "getAlert" /\ last.arg = 1 /\ AllAcked(last.log)) =>
        IF Bit(last.pre[12], 5) = 1
        THEN /\ last.ret = 1
             /\ Bit(regs[12], 5) = 0
             /\ getAlert(regs, FALSE, 0, 0, 0, 0, 0).ret = 0
        ELSE /\ last.ret = 0
             /\ NoWrite(last.log)
             /\ regs = last.pre

C4_Witness ==
    /\ last.op = "getAlert"
    /\ last.arg = 1
    /\ AllAcked(last.log)
    /\ Bit(last.pre[12], 5) = 1
    /\ last.ret = 1
    /\ Bit(regs[12], 5) = 0

\* C5: for every percent in 1..32 and every CONFIG value, a setThreshold
\* that returned 0 has stored 32 - percent in CONFIG bits 4-0, and a
\* getThreshold made next returns percent -- for the call just made and, on
\* every register file a call can find, for every percent in 1..32.
C5_ThresholdRoundTrip ==
    /\ (last.op = "setThreshold" /\ last.arg \in 1..32 /\ last.ret = 0) =>
           /\ regs[12] % 32 = 32 - last.arg
           /\ getThreshold(regs, 0, 0).ret = last.arg
    /\ CallPending =>
           \A percent \in 1..32 :
               LET res == setThreshold(regs, percent, 0, 0, 0)
               IN  /\ res.ret = 0
                   /\ res.regs[12] % 32 = 32 - percent
                   /\ res.regs[12] % 32 \in 0..31
                   /\ getThreshold(res.regs, 0, 0).ret = percent

C5_Witness ==
    /\ last.op = "setThreshold"
    /\ last.arg = 32
    /\ last.ret = 0
    /\ last.pre[12] % 32 # 0
    /\ regs[12] % 32 = 0

\* C6 as stated: enableComparator() and disableComparator() change nothing
\* but bit 0 of the VRESET_ID high byte; the 7-bit VRESET field after the
\* call equals the field before it.
C6_ComparatorTouchesOnlyBit0 ==
    last.op \in {"enableComparator", "disableComparator"} =>
        /\ regs[24] \div 512 = last.pre[24] \div 512
        /\ ClearBit(regs[24], 8) = ClearBit(last.pre[24], 8)
        /\ \A a \in DOMAIN regs \ {24} : regs[a] = last.pre[a]

\* C7: for every v in 0..255 and every CONFIG value, a setCompensation(v)
\* that returned 0 has stored v in the CONFIG high byte, and a
\* getCompensation made next returns v -- for the call just made and, on
\* every register file a call can find, for every v in 0..255.
C7_CompensationRoundTrip ==
    /\ (last.op = "setCompensation" /\ last.ret = 0) =>
           /\ regs[12] \div 256 = last.arg
           /\ getCompensation(regs, 0, 0).ret = last.arg
    /\ CallPending =>
           \A v \in 0..255 :
               LET res == setCompensation(regs, v, 0, 0, 0)
               IN  /\ res.ret = 0
                   /\ res.regs[12] \div 256 = v
                   /\ getCompensation(res.regs, 0, 0).ret = v

C7_Witness ==
    /\ last.op = "setCompensation"
    /\ last.arg = 255
    /\ last.ret = 0
    /\ last.pre[12] \div 256 # 255
    /\ regs[12] \div 256 = 255

\* C8: reset() performs exactly one bus transaction, a write of 0x5400 to
\* COMMAND (0xFE); it reads nothing.
C8_ResetIsOneWrite ==
    last.op = "reset" =>
        /\ Len(last.log) = 1
        /\ last.log[1].kind = "w"
        /\ last.log[1].addr = 254
        /\ last.log[1].data = 21504

C8_Witness ==
    /\ last.op = "reset"
    /\ last.ret = 0
    /\ Len(last.log) = 1
    /\ last.pre[12] # 38684
    /\ regs[12] = 38684

---------------------------------------------------------------------------
\* Properties of the two-context specification.

ConcDone == cpc[1] = "done" /\ cpc[2] = "done"
ConcAllAcked == \A c \in {1, 2} : \A i \in 1..Len(cst[c]) : cst[c][i] = 0
Serialized == corder = <<1, 1, 2, 2>> \/ corder = <<2, 2, 1, 1>>
ReadsBeforeWrites == Len(corder) = 4 /\ corder[1] # corder[2]
BothUpdates == Bit(regs[12], 7) = 1 /\ regs[12] % 32 = 32 - carg

====
